---- MODULE Spec2Model ----
(***************************************************************************)
(* saferet: SecretString (src/src/secret_string.rs) and SecretBytes        *)
(* (src/src/secret_bytes.rs).                                              *)
(*                                                                         *)
(* A secret is a newtype around an owned buffer (String / Vec<u8>).  The   *)
(* buffer is modelled as a heap allocation: `mem` holds every byte of the  *)
(* allocation's capacity, `len` is the initialised prefix.  Variable       *)
(* bindings of the calling program are the slots; a slot owns one          *)
(* allocation from construction until its drop glue has run.               *)
(***************************************************************************)
EXTENDS Integers, Sequences, FiniteSets, TLC

\* ------------------------------------------------------------------ bounds
MaxLen   == 2        \* longest secret content
NumSlots == 2        \* bindings of the calling program

Byte  == {0, 1}      \* byte values the inputs are built from
Slot  == 1..NumSlots
Addr  == 1..NumSlots

Kinds == {"SecretString", "SecretBytes"}

RECURSIVE SeqsUpTo(_)
SeqsUpTo(n) ==
    IF n = 0 THEN {<<>>}
    ELSE SeqsUpTo(n - 1) \cup [1..n -> Byte]

Content == SeqsUpTo(MaxLen)

VARIABLES
    constant_time_eq,   \* cargo feature "constant-time-eq" of this build
    slots,              \* slot -> [pc, kind, addr]: the binding's instance
    heap                \* address -> [status, mem, len]

vars == <<constant_time_eq, slots, heap>>

\* --------------------------------------------------- std buffers (String, Vec)
Zeros(n) == [k \in 1..n |-> 0]

AllZero(m) == \A k \in 1..Len(m) : m[k] = 0

\* <[u8]>::to_vec / <str>::to_owned: a fresh exact-capacity allocation
\* that receives the bytes of the view one by one
RECURSIVE CopyFrom(_, _)
CopyFrom(src, k) ==
    IF k > Len(src) THEN <<>>
    ELSE <<src[k]>> \o CopyFrom(src, k + 1)

to_vec(view) == [mem |-> CopyFrom(view, 1), len |-> Len(view)]

\* an owned String / Vec<u8> handed in by the caller
Owned(v) == [mem |-> v, len |-> Len(v)]

\* Deref of String / Vec: the initialised prefix
as_slice(buf) == SubSeq(buf.mem, 1, buf.len)

\* impl Into<String> / Into<Vec<u8>>: an owned input is moved, a borrowed
\* one is copied into a new allocation
Into(input) ==
    IF input.owned THEN input.buf ELSE to_vec(input.view)

OwnedInput(v)    == [owned |-> TRUE, buf |-> Owned(v), view |-> <<>>]
BorrowedInput(v) == [owned |-> FALSE, buf |-> Owned(<<>>), view |-> v]

\* the value the caller passed
InputValue(input) ==
    IF input.owned THEN as_slice(input.buf) ELSE input.view

Inputs ==
    {OwnedInput(v) : v \in Content} \cup {BorrowedInput(v) : v \in Content}

\* zeroize::Zeroize for Vec<Z> (and String through as_mut_vec): overwrite
\* the elements, clear, then overwrite the whole capacity
Vec_zeroize(buf) == [mem |-> Zeros(Len(buf.mem)), len |-> 0]

\* -------------------------------------------------------------- allocator
FreeBlock == [status |-> "free", mem |-> <<>>, len |-> 0]

\* the allocator hands out a block that is not in use; which one is
\* immaterial, so the block numbered like the binding is taken when it is free
alloc(h, hint) ==
    IF h[hint].status = "free" THEN hint
    ELSE CHOOSE a \in Addr : h[a].status = "free"

store(h, a, buf) ==
    [h EXCEPT ![a] = [status |-> "live", mem |-> buf.mem, len |-> buf.len]]

\* dealloc returns the block and leaves its bytes as they are
dealloc(h, a) == [h EXCEPT ![a].status = "free"]

\* ------------------------------------------------------------ SecretString
\* each operation takes the heap and returns the heap it leaves behind
\* variant, for comparison: the input is dropped, Self(String::new())
SecretString_new_empty(h, secret, hint) ==
    LET a == alloc(h, hint)
    IN  [heap |-> store(h, a, Owned(<<>>)),
         self |-> [kind |-> "SecretString", addr |-> a]]

SecretString_new(h, secret, hint) ==
    LET a == alloc(h, hint)
    IN  [heap |-> store(h, a, Into(secret)),
         self |-> [kind |-> "SecretString", addr |-> a]]

SecretString_expose(h, self) == as_slice(h[self.addr])

\* variant, for comparison: derive(Debug) on the newtype
SecretString_fmt_Debug_derived(h, self) ==
    "SecretString(" \o ToString(as_slice(h[self.addr])) \o ")"

SecretString_fmt_Debug(h, self) == "SecretString(***)"

SecretString_fmt_Display(h, self) == "***"

SecretString_from_String(h, s, hint) == SecretString_new(h, s, hint)

SecretString_from_str_ref(h, s, hint) == SecretString_new(h, s, hint)

SecretString_as_ref(h, self) == SecretString_expose(h, self)

SecretString_default(h, hint) == SecretString_new(h, BorrowedInput(<<>>), hint)

SecretString_from_str(h, s, hint) ==
    [ok |-> TRUE, value |-> SecretString_new(h, s, hint)]

\* ------------------------------------------------------------- SecretBytes
SecretBytes_new(h, secret, hint) ==
    LET a == alloc(h, hint)
    IN  [heap |-> store(h, a, Into(secret)),
         self |-> [kind |-> "SecretBytes", addr |-> a]]

SecretBytes_expose(h, self) == as_slice(h[self.addr])

\* variant, for comparison: derive(Debug) on the newtype
SecretBytes_fmt_Debug_derived(h, self) ==
    "SecretBytes(" \o ToString(as_slice(h[self.addr])) \o ")"

SecretBytes_fmt_Debug(h, self) == "SecretBytes(***)"

\* variant, for comparison: one mask character per byte
SecretBytes_fmt_Display_sized(h, self) ==
    CASE h[self.addr].len = 0 -> ""
      [] h[self.addr].len = 1 -> "*"
      [] h[self.addr].len = 2 -> "**"
      [] OTHER                -> "***"

SecretBytes_fmt_Display(h, self) == "***"

SecretBytes_from_Vec(h, v, hint) == SecretBytes_new(h, v, hint)

\* variant, for comparison: the slice is taken for an owned vector and its bytes never copied
SecretBytes_from_slice_uncopied(h, s, hint) == SecretBytes_new(h, OwnedInput(<<>>), hint)

SecretBytes_from_slice(h, s, hint) ==
    SecretBytes_new(h, [owned |-> TRUE, buf |-> to_vec(s.view), view |-> <<>>], hint)

SecretBytes_as_ref(h, self) == SecretBytes_expose(h, self)

SecretBytes_default(h, hint) == SecretBytes_new(h, OwnedInput(<<>>), hint)

\* ---------------------------------------------------------------- equality
\* subtle::ConstantTimeEq for u8: 1 when equal, 0 otherwise, no branch
u8_ct_eq(a, b) == IF a = b THEN 1 ELSE 0

\* subtle::ConstantTimeEq for [u8]: the lengths decide first; then every
\* position is visited and folded into x, whatever x already is
RECURSIVE ct_eq_loop(_, _, _, _)
ct_eq_loop(a, b, k, acc) ==
    IF k > Len(a) THEN acc
    ELSE ct_eq_loop(a, b, k + 1,
            [x |-> acc.x * u8_ct_eq(a[k], b[k]), steps |-> acc.steps + 1])

slice_ct_eq(a, b) ==
    IF Len(a) # Len(b) THEN [x |-> 0, steps |-> 0]
    ELSE ct_eq_loop(a, b, 1, [x |-> 1, steps |-> 0])

Min(a, b) == IF a < b THEN a ELSE b

\* derive(PartialEq) on the newtype: the buffers' own ==, whose amount of
\* work the language leaves open
derived_eq(a, b) ==
    {[res |-> (a = b), steps |-> n] : n \in 0..Min(Len(a), Len(b))}

\* variant, for comparison: zip the two slices without looking at the lengths
SecretString_eq_zip(h, self, other, ct) ==
    LET a == as_slice(h[self.addr])
        b == as_slice(h[other.addr])
        n == Min(Len(a), Len(b))
        c == ct_eq_loop(SubSeq(a, 1, n), SubSeq(b, 1, n), 1, [x |-> 1, steps |-> 0])
    IN  {[res |-> (c.x = 1), steps |-> c.steps]}

\* variant, for comparison: leave the loop at the first mismatch
RECURSIVE early_exit_loop(_, _, _)
early_exit_loop(a, b, k) ==
    IF k > Len(a) THEN [x |-> 1, steps |-> k - 1]
    ELSE IF a[k] # b[k] THEN [x |-> 0, steps |-> k]
    ELSE early_exit_loop(a, b, k + 1)

SecretBytes_eq_early_exit(h, self, other, ct) ==
    LET a == as_slice(h[self.addr])
        b == as_slice(h[other.addr])
        c == IF Len(a) # Len(b) THEN [x |-> 0, steps |-> 0]
             ELSE early_exit_loop(a, b, 1)
    IN  {[res |-> (c.x = 1), steps |-> c.steps]}

\* impl PartialEq: every outcome (result, positions visited) of self == other
SecretString_eq(h, self, other, ct) ==
    IF ct
    THEN LET c == slice_ct_eq(as_slice(h[self.addr]), as_slice(h[other.addr]))
         IN  {[res |-> (c.x = 1), steps |-> c.steps]}
    ELSE derived_eq(as_slice(h[self.addr]), as_slice(h[other.addr]))

SecretBytes_eq(h, self, other, ct) ==
    IF ct
    THEN LET c == slice_ct_eq(as_slice(h[self.addr]), as_slice(h[other.addr]))
         IN  {[res |-> (c.x = 1), steps |-> c.steps]}
    ELSE derived_eq(as_slice(h[self.addr]), as_slice(h[other.addr]))

\* ------------------------------------------- derive(Clone, Zeroize, ZeroizeOnDrop)
\* derive(Zeroize): zeroize the field in place
SecretString_zeroize(h, self) == store(h, self.addr, Vec_zeroize(h[self.addr]))

\* variant, for comparison: the elements are overwritten but the vector is not cleared
SecretBytes_zeroize_uncleared(h, self) ==
    store(h, self.addr,
          [mem |-> Zeros(Len(h[self.addr].mem)), len |-> h[self.addr].len])

SecretBytes_zeroize(h, self) == store(h, self.addr, Vec_zeroize(h[self.addr]))

\* derive(ZeroizeOnDrop): Drop::drop zeroizes the field, then the field's
\* own drop glue hands the allocation back
SecretString_drop(h, self) == dealloc(SecretString_zeroize(h, self), self.addr)

\* variant, for comparison: no ZeroizeOnDrop, the field's drop glue alone
SecretBytes_drop_plain(h, self) == dealloc(h, self.addr)

SecretBytes_drop(h, self) == dealloc(SecretBytes_zeroize(h, self), self.addr)

\* derive(Clone): String::clone / Vec::clone, a new allocation holding a
\* copy of the initialised bytes
\* variant, for comparison: a shallow copy that shares the allocation
SecretString_clone_shared(h, self, hint) == [heap |-> h, self |-> self]

SecretString_clone(h, self, hint) ==
    LET a == alloc(h, hint)
    IN  [heap |-> store(h, a, to_vec(as_slice(h[self.addr]))),
         self |-> [kind |-> self.kind, addr |-> a]]

SecretBytes_clone(h, self, hint) ==
    LET a == alloc(h, hint)
    IN  [heap |-> store(h, a, to_vec(as_slice(h[self.addr]))),
         self |-> [kind |-> self.kind, addr |-> a]]

\* --------------------------------------------- method resolution by type
IsText(self) == self.kind = "SecretString"

Expose(h, self) ==
    IF IsText(self) THEN SecretString_expose(h, self) ELSE SecretBytes_expose(h, self)

FmtDebug(h, self) ==
    IF IsText(self) THEN SecretString_fmt_Debug(h, self)
    ELSE SecretBytes_fmt_Debug(h, self)

FmtDisplay(h, self) ==
    IF IsText(self) THEN SecretString_fmt_Display(h, self)
    ELSE SecretBytes_fmt_Display(h, self)

EqOutcomes(h, self, other, ct) ==
    IF IsText(self) THEN SecretString_eq(h, self, other, ct)
    ELSE SecretBytes_eq(h, self, other, ct)

AsRefOf(h, self) ==
    IF IsText(self) THEN SecretString_as_ref(h, self) ELSE SecretBytes_as_ref(h, self)

ZeroizeOf(h, self) ==
    IF IsText(self) THEN SecretString_zeroize(h, self) ELSE SecretBytes_zeroize(h, self)

DropOf(h, self) ==
    IF IsText(self) THEN SecretString_drop(h, self) ELSE SecretBytes_drop(h, self)

CloneOf(h, self, hint) ==
    IF IsText(self) THEN SecretString_clone(h, self, hint)
    ELSE SecretBytes_clone(h, self, hint)

\* the constructors of each type, by the name the caller wrote
Construct(h, kind, via, input, hint) ==
    IF kind = "SecretString"
    THEN CASE via = "new"      -> SecretString_new(h, input, hint)
           [] via = "from"     -> IF input.owned
                                  THEN SecretString_from_String(h, input, hint)
                                  ELSE SecretString_from_str_ref(h, input, hint)
           [] via = "from_str" -> SecretString_from_str(h, input, hint).value
           [] via = "default"  -> SecretString_default(h, hint)
    ELSE CASE via = "new"      -> SecretBytes_new(h, input, hint)
           [] via = "from"     -> IF input.owned
                                  THEN SecretBytes_from_Vec(h, input, hint)
                                  ELSE SecretBytes_from_slice(h, input, hint)
           [] via = "default"  -> SecretBytes_default(h, hint)

\* ------------------------------------------------------------------- state
Unbound == [pc |-> "unbound", kind |-> "none", addr |-> 0]

Bound(self) == [pc |-> "live", kind |-> self.kind, addr |-> self.addr]

Live(i) == slots[i].pc = "live"

Init ==
    /\ constant_time_eq \in BOOLEAN
    /\ slots = [i \in Slot |-> Unbound]
    /\ heap = [a \in Addr |-> FreeBlock]

\* let s = T::new(input)
New(i, kind, input) ==
    /\ ~Live(i)
    /\ LET r == Construct(heap, kind, "new", input, i)
       IN  /\ heap' = r.heap
           /\ slots' = [slots EXCEPT ![i] = Bound(r.self)]
    /\ UNCHANGED constant_time_eq

\* let s = T::from(input) / input.into()
From(i, kind, input) ==
    /\ ~Live(i)
    /\ LET r == Construct(heap, kind, "from", input, i)
       IN  /\ heap' = r.heap
           /\ slots' = [slots EXCEPT ![i] = Bound(r.self)]
    /\ UNCHANGED constant_time_eq

\* let s: SecretString = input.parse().unwrap()
FromStr(i, input) ==
    /\ ~Live(i)
    /\ ~input.owned
    /\ LET r == SecretString_from_str(heap, input, i)
       IN  /\ r.ok
           /\ heap' = r.value.heap
           /\ slots' = [slots EXCEPT ![i] = Bound(r.value.self)]
    /\ UNCHANGED constant_time_eq

\* let s = T::default()
Default(i, kind) ==
    /\ ~Live(i)
    /\ LET r == Construct(heap, kind, "default", BorrowedInput(<<>>), i)
       IN  /\ heap' = r.heap
           /\ slots' = [slots EXCEPT ![i] = Bound(r.self)]
    /\ UNCHANGED constant_time_eq

\* let c = s.clone()
Clone(i, j) ==
    /\ Live(i)
    /\ ~Live(j)
    /\ LET r == CloneOf(heap, slots[i], j)
       IN  /\ heap' = r.heap
           /\ slots' = [slots EXCEPT ![j] = Bound(r.self)]
    /\ UNCHANGED constant_time_eq

\* s.expose(): a read through &self
ExposeCall(i) ==
    /\ Live(i)
    /\ Expose(heap, slots[i]) \in Seq(Byte)
    /\ UNCHANGED vars

\* s.as_ref(): a read through &self
AsRef(i) ==
    /\ Live(i)
    /\ AsRefOf(heap, slots[i]) \in Seq(Byte)
    /\ UNCHANGED vars

\* format!("{:?}", s): a read through &self
Debug(i) ==
    /\ Live(i)
    /\ FmtDebug(heap, slots[i]) \in STRING
    /\ UNCHANGED vars

\* format!("{}", s): a read through &self
Display(i) ==
    /\ Live(i)
    /\ FmtDisplay(heap, slots[i]) \in STRING
    /\ UNCHANGED vars

\* a == b, both of one type: a read through &self and &other
Eq(i, j) ==
    /\ Live(i)
    /\ Live(j)
    /\ slots[i].kind = slots[j].kind
    /\ \E o \in EqOutcomes(heap, slots[i], slots[j], constant_time_eq) :
          o.res \in BOOLEAN
    /\ UNCHANGED vars

\* s.zeroize()
Zeroize(i) ==
    /\ Live(i)
    /\ heap' = ZeroizeOf(heap, slots[i])
    /\ UNCHANGED <<constant_time_eq, slots>>

\* the binding's lifetime ends: scope exit, early return and unwinding all
\* run the same drop glue
Drop(i) ==
    /\ Live(i)
    /\ heap' = DropOf(heap, slots[i])
    /\ slots' = [slots EXCEPT ![i] = Unbound]
    /\ UNCHANGED constant_time_eq

Next ==
    \/ \E i \in Slot, k \in Kinds, input \in Inputs : New(i, k, input)
    \/ \E i \in Slot, k \in Kinds, input \in Inputs : From(i, k, input)
    \/ \E i \in Slot, input \in Inputs : FromStr(i, input)
    \/ \E i \in Slot, k \in Kinds : Default(i, k)
    \/ \E i \in Slot, j \in Slot : Clone(i, j)
    \/ \E i \in Slot : ExposeCall(i)
    \/ \E i \in Slot : AsRef(i)
    \/ \E i \in Slot : Debug(i)
    \/ \E i \in Slot : Display(i)
    \/ \E i \in Slot, j \in Slot : Eq(i, j)
    \/ \E i \in Slot : Zeroize(i)
    \/ \E i \in Slot : Drop(i)

\* every build of the crate
Spec == Init /\ [][Next]_vars

\* the default build: feature "constant-time-eq" enabled
InitCt == Init /\ constant_time_eq

SpecCt == InitCt /\ [][Next]_vars

\* ================================================================== claims
Inst(i) == [kind |-> slots[i].kind, addr |-> slots[i].addr]

Exposed(i) == Expose(heap, Inst(i))

Capacity(i) == Len(heap[slots[i].addr].mem)

\* a live instance that explicit zeroize has emptied: no constructor leaves
\* capacity behind an empty buffer
Zeroized(i) == Live(i) /\ Exposed(i) = <<>> /\ Capacity(i) > 0

\* the heap and instance a constructor call would leave from this state
Built(kind, via, input, i) == Construct(heap, kind, via, input, i)

ExposedOf(r) == Expose(r.heap, r.self)

\* C1 (as stated): Debug rendering of every secret-text instance, whatever
\* its content and history, is exactly SecretText(***).
C1_DebugIsSecretText ==
    \A i \in Slot :
        Live(i) /\ slots[i].kind = "SecretString"
            => FmtDebug(heap, Inst(i)) = "SecretText(***)"

\* C1 (amended): Debug rendering of every secret-text instance, whatever its
\* content and history (constructed, cloned, zeroized), is exactly the fixed
\* literal SecretString(***), the same for all instances.
C1_DebugIsSecretString ==
    \A i \in Slot :
        Live(i) /\ slots[i].kind = "SecretString"
            => FmtDebug(heap, Inst(i)) = "SecretString(***)"

C1_Witness ==
    \E i, j \in Slot :
        /\ Live(i) /\ slots[i].kind = "SecretString" /\ Len(Exposed(i)) = MaxLen
        /\ Zeroized(j) /\ slots[j].kind = "SecretString"
        /\ FmtDebug(heap, Inst(i)) = FmtDebug(heap, Inst(j))

\* C2: Debug rendering of every SecretBytes instance, whatever its bytes and
\* history (constructed, cloned, zeroized), is exactly SecretBytes(***).
C2_DebugIsSecretBytes ==
    \A i \in Slot :
        Live(i) /\ slots[i].kind = "SecretBytes"
            => FmtDebug(heap, Inst(i)) = "SecretBytes(***)"

C2_Witness ==
    \E i, j \in Slot :
        /\ Live(i) /\ slots[i].kind = "SecretBytes" /\ Len(Exposed(i)) = MaxLen
        /\ Live(j) /\ slots[j].kind = "SecretBytes" /\ Exposed(j) = <<>>
        /\ FmtDebug(heap, Inst(i)) = FmtDebug(heap, Inst(j))

\* C3: Display rendering of every secret of either type is exactly ***, so
\* any two secrets, whatever their types, contents and lengths, render alike.
C3_DisplayIsMask ==
    \A i, j \in Slot :
        Live(i) /\ Live(j)
            => /\ FmtDisplay(heap, Inst(i)) = "***"
               /\ FmtDisplay(heap, Inst(i)) = FmtDisplay(heap, Inst(j))

C3_Witness ==
    \E i, j \in Slot :
        /\ Live(i) /\ Live(j)
        /\ slots[i].kind = "SecretString" /\ slots[j].kind = "SecretBytes"
        /\ Len(Exposed(i)) # Len(Exposed(j))
        /\ Exposed(j) # <<>>
        /\ FmtDisplay(heap, Inst(i)) = FmtDisplay(heap, Inst(j))

\* C4: new(V) followed by expose() gives back exactly V, for text and bytes,
\* for empty and non-empty V, for an owned and for a borrowed V, and on
\* whatever heap the construction happens.
C4_NewExposeRoundTrip ==
    \A i \in Slot : \A kind \in Kinds : \A input \in Inputs :
        ~Live(i) => ExposedOf(Built(kind, "new", input, i)) = InputValue(input)

C4_Witness ==
    \E i, j \in Slot :
        /\ ~Live(i)
        /\ Live(j) /\ Len(Exposed(j)) = MaxLen /\ Capacity(j) = MaxLen
        /\ \E input \in Inputs :
              /\ ~input.owned
              /\ InputValue(input) = Exposed(j)
              /\ ExposedOf(Built(slots[j].kind, "new", input, i)) = Exposed(j)

IsPrefix(a, b) == Len(a) <= Len(b) /\ SubSeq(b, 1, Len(a)) = a

EqOf(i, j) == EqOutcomes(heap, Inst(i), Inst(j), constant_time_eq)

\* C5: for two secrets of one type, A == B is true exactly when expose(A)
\* and expose(B) are the same bytes: equal contents compare equal; contents
\* that differ, in a byte, in length, or by one being a strict prefix of the
\* other, compare not equal.
C5_EqIffSameBytes ==
    \A i, j \in Slot :
        Live(i) /\ Live(j) /\ slots[i].kind = slots[j].kind
            => \A o \in EqOf(i, j) : o.res = (Exposed(i) = Exposed(j))

C5_Witness ==
    \E i, j \in Slot :
        /\ Live(i) /\ Live(j) /\ slots[i].kind = slots[j].kind
        /\ constant_time_eq
        /\ Exposed(i) # <<>>
        /\ IsPrefix(Exposed(i), Exposed(j)) /\ Len(Exposed(i)) < Len(Exposed(j))
        /\ \A o \in EqOf(i, j) : ~o.res
        /\ \A o \in EqOf(i, i) : o.res

\* zeroize() applied to any live instance that holds content
C6_ZeroizeInv ==
    \A i \in Slot :
        Live(i) /\ Exposed(i) # <<>>
            => LET h2 == ZeroizeOf(heap, Inst(i))
                   b  == h2[slots[i].addr]
               IN  /\ Expose(h2, Inst(i)) = <<>>
                   /\ b.status = "live"
                   /\ b.len = 0
                   /\ AllZero(b.mem)

\* a step that changes the buffer of an instance that stays bound is a
\* zeroize: the instance keeps its block and exposes nothing afterwards
C6_ZeroizeStep ==
    \A i \in Slot :
        Live(i) /\ slots'[i] = slots[i] /\ heap'[slots[i].addr] # heap[slots[i].addr]
            => /\ Expose(heap', Inst(i)) = <<>>
               /\ heap'[slots[i].addr].status = "live"
               /\ AllZero(heap'[slots[i].addr].mem)

\* C6: explicit zeroize() of a secret of either type built from a non-empty
\* V leaves the instance in place with expose() empty and every byte of its
\* buffer zero, so nothing of V is left to observe.
C6_ZeroizeEmpties == [](C6_ZeroizeInv) /\ [][C6_ZeroizeStep]_vars

C6_Witness ==
    \E i \in Slot : Zeroized(i) /\ Capacity(i) = MaxLen

\* clone() applied to any live instance, then zeroize or drop of either one
C7_CloneInv ==
    \A i, j \in Slot :
        Live(i) /\ ~Live(j)
            => LET r  == CloneOf(heap, Inst(i), j)
                   v  == Exposed(i)
               IN  /\ ExposedOf(r) = v
                   /\ Expose(r.heap, Inst(i)) = v
                   /\ \A o \in EqOutcomes(r.heap, r.self, Inst(i), constant_time_eq) : o.res
                   /\ \A o \in EqOutcomes(r.heap, Inst(i), r.self, constant_time_eq) : o.res
                   /\ Expose(ZeroizeOf(r.heap, r.self), Inst(i)) = v
                   /\ Expose(DropOf(r.heap, r.self), Inst(i)) = v
                   /\ Expose(ZeroizeOf(r.heap, Inst(i)), r.self) = v
                   /\ Expose(DropOf(r.heap, Inst(i)), r.self) = v

\* a step that zeroizes, drops or rebinds one instance leaves what every
\* other live instance exposes as it was
C7_CloneStep ==
    \A i, j \in Slot :
        /\ i # j
        /\ Live(i) /\ Live(j) /\ slots'[j] = slots[j]
        /\ \/ slots'[i] # slots[i]
           \/ heap'[slots[i].addr] # heap[slots[i].addr]
        => Expose(heap', Inst(j)) = Exposed(j)

\* C7: clone() yields an instance that exposes what the original exposes
\* and compares equal to it, and the two are independent: zeroizing or
\* dropping either one, right away or at any later step, leaves what the
\* other exposes unchanged.
C7_CloneIndependent == [](C7_CloneInv) /\ [][C7_CloneStep]_vars

\* original and copy side by side, the copy since zeroized
C7_Witness ==
    \E i, j \in Slot :
        /\ i # j
        /\ Live(i) /\ Len(Exposed(i)) = MaxLen
        /\ Zeroized(j) /\ slots[j].kind = slots[i].kind
        /\ Capacity(j) = Len(Exposed(i))
        /\ slots[j].addr # slots[i].addr

\* no block with the allocator holds content, and dropping any live
\* instance would return its block zeroed over its whole capacity
C8_FreedInv ==
    /\ \A a \in Addr :
          heap[a].status = "free" => AllZero(heap[a].mem) /\ heap[a].len = 0
    /\ \A i \in Slot :
          Live(i) => LET b == DropOf(heap, Inst(i))[slots[i].addr]
                     IN  /\ b.status = "free"
                         /\ AllZero(b.mem)
                         /\ Len(b.mem) = Capacity(i)

\* a step that ends an instance's lifetime returns its block zeroed
C8_DropStep ==
    \A i \in Slot :
        Live(i) /\ slots'[i].pc # "live"
            => LET b == heap'[slots[i].addr]
               IN  /\ b.status = "free"
                   /\ b.len = 0
                   /\ AllZero(b.mem)
                   /\ Len(b.mem) = Capacity(i)

\* C8: whenever an instance's lifetime ends, whether or not zeroize() was
\* called on it before, every byte of its buffer is zero when the block goes
\* back to the allocator: no block is ever free while holding content.
C8_ScrubbedBeforeReleased == [](C8_FreedInv) /\ [][C8_DropStep]_vars

\* a block of full capacity back with the allocator, all zero, beside a live
\* instance that still holds content
C8_Witness ==
    \E a \in Addr : \E i \in Slot :
        /\ heap[a].status = "free"
        /\ Len(heap[a].mem) = MaxLen
        /\ AllZero(heap[a].mem)
        /\ slots[i].pc = "unbound"

\* a comparison of contents c and d on a heap of its own
ScratchEq(kind, c, d, ct) ==
    LET h == store(store([a \in Addr |-> FreeBlock], 1, to_vec(c)), 2, to_vec(d))
    IN  EqOutcomes(h, [kind |-> kind, addr |-> 1], [kind |-> kind, addr |-> 2], ct)

OfLen(n) == [1..n -> Byte]

\* C9: the work an equality comparison does is fixed by the two lengths
\* alone: replacing either operand by any content of the same length, so
\* moving or removing the first differing byte, leaves the number of
\* positions visited the same; and operands of different lengths compare
\* not equal with work that does not tell how long a prefix they share.
C9_EqWorkByLengths ==
    \A i, j \in Slot :
        Live(i) /\ Live(j) /\ slots[i].kind = slots[j].kind
            => \A o \in EqOf(i, j) :
                  /\ Len(Exposed(i)) # Len(Exposed(j)) => ~o.res
                  /\ \A d \in OfLen(Len(Exposed(j))) :
                        \A q \in ScratchEq(slots[i].kind, Exposed(i), d, constant_time_eq) :
                            q.steps = o.steps
                  /\ \A c \in OfLen(Len(Exposed(i))) :
                        \A q \in ScratchEq(slots[i].kind, c, Exposed(j), constant_time_eq) :
                            q.steps = o.steps

\* two contents of full length that differ in their first byte already
C9_Witness ==
    \E i, j \in Slot :
        /\ Live(i) /\ Live(j) /\ slots[i].kind = slots[j].kind
        /\ constant_time_eq
        /\ Len(Exposed(i)) = MaxLen /\ Len(Exposed(j)) = MaxLen
        /\ Exposed(i)[1] # Exposed(j)[1]
        /\ \A o \in EqOf(i, j) : ~o.res /\ o.steps = MaxLen

\* C10: every other construction path gives what new gives: from(owned V)
\* and from(borrowed V) expose what new(V) exposes, for text parse(V) never
\* fails and exposes what new(V) exposes, and default() exposes the empty
\* value, as new(empty) does.
C10_PathsAgreeWithNew ==
    \A i \in Slot : \A kind \in Kinds : \A input \in Inputs :
        ~Live(i)
        => LET n == ExposedOf(Built(kind, "new", input, i))
           IN  /\ ExposedOf(Built(kind, "from", input, i)) = n
               /\ ExposedOf(Built(kind, "from", input, i)) = InputValue(input)
               /\ kind = "SecretString" /\ ~input.owned
                    => LET p == SecretString_from_str(heap, input, i)
                       IN  p.ok /\ ExposedOf(p.value) = n
               /\ InputValue(input) = <<>>
                    => /\ ExposedOf(Built(kind, "default", input, i)) = <<>>
                       /\ ExposedOf(Built(kind, "default", input, i)) = n

C10_Witness ==
    \E i, j \in Slot :
        /\ ~Live(i)
        /\ Live(j) /\ slots[j].kind = "SecretBytes" /\ Len(Exposed(j)) = MaxLen
        /\ ExposedOf(Built("SecretBytes", "from", BorrowedInput(Exposed(j)), i)) = Exposed(j)
        /\ ExposedOf(Built("SecretString", "default", BorrowedInput(<<>>), i)) = <<>>

====
